---- MODULE Spec2Model ----
(***************************************************************************)
(* Model of the Proposal Generator (src/main.py): the state held by        *)
(* ProposalGeneratorApp, its button handlers, and the pure helpers         *)
(* hex_to_rgb and adjust_font_size used by save_as_pdf.                    *)
(*                                                                         *)
(* A Python str is a sequence of one-character strings; the bullet glyph   *)
(* U+2022 is the token "U+2022".  None is the token sequence <<"None">>.   *)
(***************************************************************************)
EXTENDS Integers, Sequences, FiniteSets, TLC

VARIABLES
    about_text,        \* content of the about ScrolledText (without Tk's final newline)
    text_tags,         \* names of the tags that were added to the about text
    text_alignment,    \* self.text_alignment: "L", "C" or "R"
    about_bg_color,    \* self.about_bg_color
    about_font_color,  \* self.about_font_color
    goal_row_color,    \* self.goal_row_color
    goal_font_color,   \* self.goal_font_color
    tables,            \* self.tables: the contents of each (problem, goal) Entry pair
    files_written,     \* number of pdf.output(file_path) calls made so far
    outcome,           \* how the handler that ran last ended: "ok", an exception, or for
                       \* save_as_pdf what the save dialog returned ("saved", "cancelled")
    pdf,               \* the FPDF document built by save_as_pdf when it ran last
    color_arg,         \* argument of a direct hex_to_rgb call
    color_ret,         \* what that call returned or raised
    fit_arg,           \* arguments of a direct adjust_font_size call
    fit_ret            \* what that call returned

app_vars == <<about_text, text_tags, text_alignment, about_bg_color, about_font_color,
              goal_row_color, goal_font_color, tables>>
run_vars == <<files_written, outcome, pdf>>
fn_vars == <<color_arg, color_ret, fit_arg, fit_ret>>
vars == <<app_vars, run_vars, fn_vars>>

----------------------------------------------------------------------------
(* Bounds of the model *)

MaxTables == 2      \* most entries the collection grows to
MaxExports == 1     \* most files written in one behaviour
MaxText == 4        \* longest about text in the editor specification
MaxColorLen == 7    \* longest generated color specifier
MaxOver == 2        \* how far a written entry text may exceed max_length
MaxStart == 12      \* largest starting font size tried
MaxAbout == 1       \* longest about text in the application specification

----------------------------------------------------------------------------
(* Python str and int helpers *)

None == <<"None">>

UpperLetters == <<"A","B","C","D","E","F","G","H","I","J","K","L","M",
                  "N","O","P","Q","R","S","T","U","V","W","X","Y","Z">>
LowerLetters == <<"a","b","c","d","e","f","g","h","i","j","k","l","m",
                  "n","o","p","q","r","s","t","u","v","w","x","y","z">>

UpperSet == {UpperLetters[i] : i \in 1..26}
LowerSet == {LowerLetters[i] : i \in 1..26}
ToLower == [c \in UpperSet |-> LowerLetters[CHOOSE i \in 1..26 : UpperLetters[i] = c]]
ToUpper == [c \in LowerSet |-> UpperLetters[CHOOSE i \in 1..26 : LowerLetters[i] = c]]

lower_char(c) == IF c \in UpperSet THEN ToLower[c] ELSE c
upper_char(c) == IF c \in LowerSet THEN ToUpper[c] ELSE c

str_lower(s) == [i \in 1..Len(s) |-> lower_char(s[i])]
str_upper(s) == [i \in 1..Len(s) |-> upper_char(s[i])]

Whitespace == {" ", "\n", "\t"}

RECURSIVE str_lstrip(_, _)
str_lstrip(s, chars) ==
    IF Len(s) > 0 /\ s[1] \in chars THEN str_lstrip(Tail(s), chars) ELSE s

RECURSIVE str_rstrip(_, _)
str_rstrip(s, chars) ==
    IF Len(s) > 0 /\ s[Len(s)] \in chars
    THEN str_rstrip(SubSeq(s, 1, Len(s) - 1), chars)
    ELSE s

str_strip(s) == str_rstrip(str_lstrip(s, Whitespace), Whitespace)

HexDigits == <<"0","1","2","3","4","5","6","7","8","9","a","b","c","d","e","f">>
HexChars == {HexDigits[i] : i \in 1..16} \cup {"A","B","C","D","E","F"}
HexValue == [c \in HexChars |-> (CHOOSE i \in 1..16 : HexDigits[i] = lower_char(c)) - 1]
digit_value(c) == HexValue[c]

RECURSIVE digits_value(_)
digits_value(s) ==
    IF Len(s) = 0 THEN 0
    ELSE 16 * digits_value(SubSeq(s, 1, Len(s) - 1)) + digit_value(s[Len(s)])

Raised == [raised |-> TRUE, value |-> <<>>]
Returned(v) == [raised |-> FALSE, value |-> v]

\* int(s, 16): surrounding whitespace is dropped, one sign is accepted, then an
\* optional 0x prefix, then at least one hexadecimal digit and nothing else.
py_int16(s) ==
    LET t == str_strip(s)
        signed == Len(t) > 0 /\ t[1] \in {"+", "-"}
        u == IF signed THEN Tail(t) ELSE t
        v == IF Len(u) >= 2 /\ u[1] = "0" /\ u[2] \in {"x", "X"}
             THEN SubSeq(u, 3, Len(u)) ELSE u
    IN  IF Len(v) = 0 \/ \E i \in 1..Len(v) : v[i] \notin HexChars
        THEN Raised
        ELSE Returned(IF signed /\ t[1] = "-" THEN 0 - digits_value(v) ELSE digits_value(v))

----------------------------------------------------------------------------
(* Color Resolver *)

NAMED_COLORS ==
    (<<"w","h","i","t","e">> :> <<"#","F","F","F","F","F","F">>) @@
    (<<"b","l","a","c","k">> :> <<"#","0","0","0","0","0","0">>) @@
    (<<"r","e","d">>         :> <<"#","F","F","0","0","0","0">>) @@
    (<<"g","r","e","e","n">> :> <<"#","0","0","F","F","0","0">>) @@
    (<<"b","l","u","e">>     :> <<"#","0","0","0","0","F","F">>)

\* NAMED_COLORS.get(color.lower(), color)
resolve_name(color) ==
    IF str_lower(color) \in DOMAIN NAMED_COLORS
    THEN NAMED_COLORS[str_lower(color)]
    ELSE color

\* if color.startswith('#'): color = color.lstrip('#')
strip_marker(color) == str_lstrip(color, {"#"})

\* Mutation: each digit is followed by a zero instead of being repeated.
double_chars_pad(color) ==
    [i \in 1..(2 * Len(color)) |-> IF i % 2 = 1 THEN color[(i + 1) \div 2] ELSE "0"]

\* ''.join([c * 2 for c in color])
double_chars(color) == [i \in 1..(2 * Len(color)) |-> color[(i + 1) \div 2]]

\* len(color) in (3, 6)
length_ok(color) == Len(color) \in {3, 6}

\* tuple(int(color[i:i + 2], 16) for i in range(0, 6, 2))
parse_groups(color) ==
    LET g(k) == py_int16(SubSeq(color, 2 * k - 1, 2 * k))
    IN  IF \E k \in 1..3 : g(k).raised
        THEN Raised
        ELSE Returned(<<g(1).value, g(2).value, g(3).value>>)

hex_to_rgb(color) ==
    IF color = None
    THEN Raised
    ELSE LET c1 == strip_marker(resolve_name(color))
         IN  IF ~length_ok(c1)
             THEN Raised
             ELSE parse_groups(IF Len(c1) = 3 THEN double_chars(c1) ELSE c1)

----------------------------------------------------------------------------
(* Font-fit rule *)

max_length == 105
cell_width_text == 150
cell_width_problem == 30
min_font_size == 6
initial_font_size == 12

\* Advance widths of the embedded regular face in 1/1000 em (sample glyphs).
glyph_width(c) ==
    CASE c = "i" -> 258
      [] c = "/" -> 372
      [] c = "a" -> 561
      [] c = "b" -> 615
      [] c = "W" -> 930
      [] OTHER -> 650

\* Sum of the advance widths of text[lo..hi].
RECURSIVE units_between(_, _, _)
units_between(text, lo, hi) ==
    IF lo > hi THEN 0
    ELSE IF lo = hi THEN glyph_width(text[lo])
    ELSE LET mid == (lo + hi) \div 2
         IN  units_between(text, lo, mid) + units_between(text, mid + 1, hi)

text_units(text) == units_between(text, 1, Len(text))

\* pdf.get_string_width(text) > max_width, with the document's font at font_size
\* points and lengths in millimetres (1 pt = 25.4/72 mm).
too_wide(font_size, text, max_width) ==
    text_units(text) * font_size * 254 > max_width * 720000

\* Mutation: the loop stops one size too early.
RECURSIVE adjust_loop_early(_, _, _, _)
adjust_loop_early(pdf_size, text, max_width, font_size) ==
    IF too_wide(pdf_size, text, max_width) /\ font_size > min_font_size + 1
    THEN adjust_loop_early(font_size - 1, text, max_width, font_size - 1)
    ELSE font_size

\* while pdf.get_string_width(text) > max_width and font_size > 6:
\*     font_size -= 1; pdf.set_font("NotoSans", size=font_size)
RECURSIVE adjust_loop(_, _, _, _)
adjust_loop(pdf_size, text, max_width, font_size) ==
    IF too_wide(pdf_size, text, max_width) /\ font_size > min_font_size
    THEN adjust_loop(font_size - 1, text, max_width, font_size - 1)
    ELSE font_size

\* The callers set the document's font to the starting size right before the call.
adjust_font_size(text, max_width, start) == adjust_loop(start, text, max_width, start)

----------------------------------------------------------------------------
(* Document assembly *)

NA == <<"N", "/", "A">>
White == <<255, 255, 255>>
Black == <<0, 0, 0>>

\* text if text else "N/A"
value_or_na(text) == IF Len(text) = 0 THEN NA ELSE text

value_cell(text) ==
    [value |-> value_or_na(text),
     size  |-> adjust_font_size(value_or_na(text), cell_width_text, initial_font_size)]

\* The two rows one loop iteration draws for an entry.
entry_rows(entry, goal_fill, goal_color) ==
    << [label |-> "Problem:", fill |-> White, color |-> Black] @@ value_cell(entry.problem),
       [label |-> "Goal:", fill |-> goal_fill, color |-> goal_color] @@ value_cell(entry.goal) >>

\* Mutation: entries without a problem text are left out.
RECURSIVE render_tables_skip(_, _, _)
render_tables_skip(ts, goal_fill, goal_color) ==
    IF Len(ts) = 0 THEN <<>>
    ELSE (IF Len(Head(ts).problem) = 0 THEN <<>>
          ELSE entry_rows(Head(ts), goal_fill, goal_color))
         \o render_tables_skip(Tail(ts), goal_fill, goal_color)

\* for idx, (problem_entry, goal_entry) in enumerate(self.tables): ...
RECURSIVE render_tables(_, _, _)
render_tables(ts, goal_fill, goal_color) ==
    IF Len(ts) = 0 THEN <<>>
    ELSE entry_rows(Head(ts), goal_fill, goal_color)
         \o render_tables(Tail(ts), goal_fill, goal_color)

NoPdf == [built |-> FALSE, about |-> <<>>, align |-> "", fill |-> <<>>, color |-> <<>>,
          rows |-> <<>>]

\* self.about_text.get("1.0", tk.END).strip(); Tk ends the text with a newline.
about_export_text(text) == str_strip(text \o <<"\n">>)

\* Mutation: the goal colors are not resolved before the dialog.
assembly_raises_about_only ==
    \/ hex_to_rgb(about_bg_color).raised
    \/ hex_to_rgb(about_font_color).raised

\* The goal colors are resolved inside the loop, once per entry.
assembly_raises ==
    \/ hex_to_rgb(about_bg_color).raised
    \/ hex_to_rgb(about_font_color).raised
    \/ Len(tables) > 0 /\ (\/ hex_to_rgb(goal_row_color).raised
                           \/ hex_to_rgb(goal_font_color).raised)

assembled ==
    [built |-> TRUE,
     about |-> about_export_text(about_text),
     align |-> text_alignment,
     fill  |-> hex_to_rgb(about_bg_color).value,
     color |-> hex_to_rgb(about_font_color).value,
     rows  |-> render_tables(tables, hex_to_rgb(goal_row_color).value,
                             hex_to_rgb(goal_font_color).value)]

----------------------------------------------------------------------------
(* State after __init__ *)

DefaultAboutBg == <<"b","l","a","c","k">>
DefaultAboutFont == <<"w","h","i","t","e">>
DefaultGoalFont == <<"b","l","a","c","k">>
DefaultGoalRow == <<"#","f","f","f","f","f","f">>

EmptyEntry == [problem |-> <<>>, goal |-> <<>>]

NotCalled == [raised |-> FALSE, value |-> <<>>]
NoFitArg == [text |-> <<>>, max_width |-> 0, start |-> 0]

AppInit ==
    /\ about_text = <<>>
    /\ text_tags = {}
    /\ text_alignment = "L"
    /\ about_bg_color = DefaultAboutBg
    /\ about_font_color = DefaultAboutFont
    /\ goal_font_color = DefaultGoalFont
    /\ goal_row_color = DefaultGoalRow
    /\ tables = <<EmptyEntry>>
    /\ files_written = 0
    /\ outcome = "ok"
    /\ pdf = NoPdf

Init ==
    /\ AppInit
    /\ color_arg = None
    /\ color_ret = NotCalled
    /\ fit_arg = NoFitArg
    /\ fit_ret = 0

\* A handler other than save_as_pdf returned normally; the document of an earlier
\* save_as_pdf call was a local of that call.
Handled == outcome' = "ok" /\ pdf' = NoPdf /\ UNCHANGED files_written

----------------------------------------------------------------------------
(* Handlers of the objectives frame *)

\* Mutation: the text is cut one character late.
limit_entry_length_late(text) ==
    IF Len(text) > max_length + 1 THEN SubSeq(text, 1, max_length + 1) ELSE text

limit_entry_length(text) ==
    IF Len(text) > max_length THEN SubSeq(text, 1, max_length) ELSE text

add_table ==
    /\ Len(tables) < MaxTables
    /\ tables' = Append(tables, EmptyEntry)
    /\ Handled
    /\ UNCHANGED <<about_text, text_tags, text_alignment, about_bg_color,
                   about_font_color, goal_row_color, goal_font_color, fn_vars>>

\* The user changes the content of one Entry; the write trace on its StringVar
\* then runs limit_entry_length.
write_entry(texts) ==
    \E i \in 1..Len(tables), field \in {"problem", "goal"}, text \in texts :
        /\ tables' = [tables EXCEPT ![i][field] = limit_entry_length(text)]
        /\ Handled
        /\ UNCHANGED <<about_text, text_tags, text_alignment, about_bg_color,
                       about_font_color, goal_row_color, goal_font_color, fn_vars>>

\* if color:
truthy(color) == color # None /\ Len(color) > 0

\* Mutation: the chooser's result is stored without the test.
chosen_always(current, color) == color

chosen(current, color) == IF truthy(color) THEN color ELSE current

set_about_bg_color(results) ==
    \E color \in results :
        /\ about_bg_color' = chosen(about_bg_color, color)
        /\ Handled
        /\ UNCHANGED <<about_text, text_tags, text_alignment, about_font_color,
                       goal_row_color, goal_font_color, tables, fn_vars>>

set_about_font_color(results) ==
    \E color \in results :
        /\ about_font_color' = chosen(about_font_color, color)
        /\ Handled
        /\ UNCHANGED <<about_text, text_tags, text_alignment, about_bg_color,
                       goal_row_color, goal_font_color, tables, fn_vars>>

set_goal_row_color(results) ==
    \E color \in results :
        /\ goal_row_color' = chosen(goal_row_color, color)
        /\ Handled
        /\ UNCHANGED <<about_text, text_tags, text_alignment, about_bg_color,
                       about_font_color, goal_font_color, tables, fn_vars>>

set_goal_font_color(results) ==
    \E color \in results :
        /\ goal_font_color' = chosen(goal_font_color, color)
        /\ Handled
        /\ UNCHANGED <<about_text, text_tags, text_alignment, about_bg_color,
                       about_font_color, goal_row_color, tables, fn_vars>>

----------------------------------------------------------------------------
(* Export and reset *)

\* Mutation: the extra entries are kept.
reset_tables_keep(ts) ==
    IF Len(ts) > 0 THEN [ts EXCEPT ![1] = EmptyEntry] ELSE ts

\* The Entry widgets of the first table are emptied, the other tables destroyed.
reset_tables(ts) ==
    IF Len(ts) > 0 THEN <<EmptyEntry>> ELSE ts

reset_application ==
    /\ about_text' = <<>>
    /\ text_tags' = {}
    /\ about_bg_color' = DefaultAboutBg
    /\ about_font_color' = DefaultAboutFont
    /\ goal_font_color' = DefaultGoalFont
    /\ goal_row_color' = DefaultGoalRow
    /\ tables' = reset_tables(tables)
    /\ UNCHANGED text_alignment

\* Mutation: the reset runs whether or not a path was chosen.
confirmed_always(file_path) == TRUE

\* if file_path:
confirmed(file_path) == Len(file_path) > 0

SavePath == <<"o","u","t",".","p","d","f">>
DialogResults == {<<>>, SavePath}

save_as_pdf ==
    \E file_path \in DialogResults :
        IF assembly_raises
        THEN /\ outcome' = "ValueError"
             /\ pdf' = NoPdf
             /\ UNCHANGED <<app_vars, files_written, fn_vars>>
        ELSE /\ pdf' = assembled
             /\ outcome' = IF file_path = <<>> THEN "cancelled" ELSE "saved"
             /\ IF confirmed(file_path)
                THEN /\ files_written < MaxExports
                     /\ files_written' = files_written + 1
                     /\ reset_application
                ELSE UNCHANGED <<app_vars, files_written>>
             /\ UNCHANGED fn_vars

----------------------------------------------------------------------------
(* Handlers of the toolbar, and typing into the about text *)

\* The user types one character at the end of the about text.
type_char(alphabet, limit) ==
    \E c \in alphabet :
        /\ Len(about_text) < limit
        /\ about_text' = Append(about_text, c)
        /\ Handled
        /\ UNCHANGED <<text_tags, text_alignment, about_bg_color, about_font_color,
                       goal_row_color, goal_font_color, tables, fn_vars>>

\* A selection is the characters first+1 .. last; <<0, 0>> stands for no selection.
NoSelection == <<0, 0>>
Selections ==
    {NoSelection} \cup
    {<<first, last>> : first \in 0..(Len(about_text) - 1), last \in 1..Len(about_text)}

has_selection(sel) == sel[1] < sel[2]
selected_text(sel) == SubSeq(about_text, sel[1] + 1, sel[2])
replace_selection(sel, text) ==
    SubSeq(about_text, 1, sel[1]) \o text \o SubSeq(about_text, sel[2] + 1, Len(about_text))

\* tag_add(tag, "sel.first", "sel.last"): Tk raises TclError without a selection.
add_tag(tag) ==
    \E sel \in Selections :
        /\ sel = NoSelection \/ has_selection(sel)
        /\ IF has_selection(sel)
           THEN /\ text_tags' = text_tags \cup {tag}
                /\ outcome' = "ok"
           ELSE /\ outcome' = "TclError"
                /\ UNCHANGED text_tags
        /\ pdf' = NoPdf
        /\ UNCHANGED <<about_text, text_alignment, about_bg_color, about_font_color,
                       goal_row_color, goal_font_color, tables, files_written, fn_vars>>

make_bold == add_tag("bold")
make_italic == add_tag("italic")
make_underline == add_tag("underline")

RECURSIVE str_split(_, _)
str_split(s, sep) ==
    IF \E i \in 1..Len(s) : s[i] = sep
    THEN LET k == CHOOSE i \in 1..Len(s) : s[i] = sep /\ \A j \in 1..(i - 1) : s[j] # sep
         IN  <<SubSeq(s, 1, k - 1)>> \o str_split(SubSeq(s, k + 1, Len(s)), sep)
    ELSE <<s>>

RECURSIVE str_join(_, _)
str_join(parts, sep) ==
    IF Len(parts) = 0 THEN <<>>
    ELSE IF Len(parts) = 1 THEN parts[1]
    ELSE parts[1] \o <<sep>> \o str_join(Tail(parts), sep)

Bullet == "U+2022"

\* [" " + line for line in ["• " + line for line in lines]], joined by newlines
bulleted(text) ==
    LET lines == str_split(text, "\n")
    IN  str_join([i \in 1..Len(lines) |-> <<" ", Bullet, " ">> \o lines[i]], "\n")

make_bullet ==
    \E sel \in Selections :
        /\ sel = NoSelection \/ has_selection(sel)
        /\ IF has_selection(sel)
           THEN /\ Len(replace_selection(sel, bulleted(selected_text(sel)))) <= MaxText
                /\ about_text' = replace_selection(sel, bulleted(selected_text(sel)))
           ELSE UNCHANGED about_text
        /\ Handled
        /\ UNCHANGED <<text_tags, text_alignment, about_bg_color, about_font_color,
                       goal_row_color, goal_font_color, tables, fn_vars>>

make_heading ==
    \E sel \in Selections :
        /\ sel = NoSelection \/ has_selection(sel)
        /\ IF has_selection(sel)
           THEN /\ about_text' = replace_selection(sel, str_upper(selected_text(sel)))
                /\ text_tags' = text_tags \cup {"heading"}
           ELSE UNCHANGED <<about_text, text_tags>>
        /\ Handled
        /\ UNCHANGED <<text_alignment, about_bg_color, about_font_color,
                       goal_row_color, goal_font_color, tables, fn_vars>>

\* {"left": "L", "center": "C", "right": "R"}[align]
alignment_code(align) ==
    CASE align = "left" -> "L" [] align = "center" -> "C" [] align = "right" -> "R"

set_alignment(align, sels) ==
    \E sel \in sels :
        /\ sel = NoSelection \/ has_selection(sel)
        /\ text_alignment' = alignment_code(align)
        /\ text_tags' = IF has_selection(sel) THEN text_tags \cup {align} ELSE text_tags
        /\ Handled
        /\ UNCHANGED <<about_text, about_bg_color, about_font_color,
                       goal_row_color, goal_font_color, tables, fn_vars>>

----------------------------------------------------------------------------
(* Direct calls of the pure helpers *)

call_hex_to_rgb ==
    /\ color_ret = NotCalled
    /\ color_ret' = hex_to_rgb(color_arg)
    /\ UNCHANGED <<app_vars, run_vars, color_arg, fit_arg, fit_ret>>

call_adjust_font_size ==
    /\ fit_ret = 0
    /\ fit_ret' = adjust_font_size(fit_arg.text, fit_arg.max_width, fit_arg.start)
    /\ UNCHANGED <<app_vars, run_vars, color_arg, color_ret, fit_arg>>

----------------------------------------------------------------------------
(* Inputs *)

\* What colorchooser.askcolor(...)[1] returns: None when cancelled, else Tk's
\* "#rrggbb" string.
ChooserHex == {None, <<"#","f","f","0","0","0","0">>}

\* A chooser that may also hand back strings hex_to_rgb does not resolve.
ChooserAny == ChooserHex \cup {<<"#","f","f","f","f","0","0","0","0","0","0","0","0">>}

\* Several "#rrggbb" results: lower case as Tk gives them, upper and mixed case.
ChooserHexWide ==
    {None, <<"#","f","f","0","0","0","0">>, <<"#","1","2","A","b","E","f">>,
     <<"#","0","9","a","f","A","F">>}

ShortTexts == {<<>>, <<"S","l","o","w">>}

\* A text of n characters: it starts with "e" when it is exactly max_length long
\* and with "o" when it is longer, goes on with "a" and has "b" beyond max_length.
long_text(n) ==
    [i \in 1..n |-> IF i = 1 THEN (IF n > max_length THEN "o" ELSE "e")
                    ELSE IF i <= max_length THEN "a" ELSE "b"]

WriteTexts == {<<>>} \cup {long_text(n) : n \in max_length..(max_length + MaxOver)}

ColorAlphabet == {"#", "a", "g", "+"}

HexShort == [1..3 -> HexChars]

ProbeColors ==
    {None,
     <<"R","E","D">>, <<"r","e","d">>, <<"B","l","u","e">>, <<"g","r","e","e","n">>,
     <<"#","a","b","c">>, <<"#","a","a","b","b","c","c">>, <<"a","a","b","b","c","c">>,
     <<"#","F","F","0","0","7","f">>, <<"x","y","z","1","2","3">>,
     <<"-","1","-","2","-","3">>, <<" ","1"," ","2"," ","3">>, <<"1"," ","2"," ","3"," ">>,
     <<"0","x","0","x","0","x">>, <<"#","#","a","b","c">>, <<"1","_","2","_","3","_">>}

ColorInputs ==
    UNION {[1..n -> ColorAlphabet] : n \in 0..MaxColorLen}
    \cup HexShort \cup {<<"#">> \o c : c \in HexShort}
    \cup ProbeColors

FitGlyphs == {"i", "a", "W"}
FitTexts == {NA} \cup {[i \in 1..n |-> g] : n \in 1..max_length, g \in FitGlyphs}
FitWidths == {cell_width_problem, cell_width_text}
FitArgs == [text : FitTexts, max_width : FitWidths, start : min_font_size..MaxStart]

----------------------------------------------------------------------------
(* Specifications *)

\* The application with Tk's color chooser.
Next ==
    \/ type_char({"a"}, MaxAbout)
    \/ \E align \in {"left", "center", "right"} : set_alignment(align, {NoSelection})
    \/ set_about_bg_color(ChooserHex)
    \/ set_about_font_color(ChooserHex)
    \/ set_goal_row_color(ChooserHex)
    \/ set_goal_font_color(ChooserHex)
    \/ add_table
    \/ write_entry(ShortTexts)
    \/ save_as_pdf

Spec == Init /\ [][Next]_vars

\* The application with a chooser that may return unresolvable strings.
NextAny ==
    \/ set_about_bg_color(ChooserAny)
    \/ set_about_font_color(ChooserAny)
    \/ set_goal_row_color(ChooserAny)
    \/ set_goal_font_color(ChooserAny)
    \/ add_table
    \/ save_as_pdf

SpecAny == Init /\ [][NextAny]_vars

\* The color setters with a chooser that returns None or "#rrggbb", add_table,
\* set_alignment and export (with its reset).
NextHex ==
    \/ set_about_bg_color(ChooserHexWide)
    \/ set_about_font_color(ChooserHexWide)
    \/ set_goal_row_color(ChooserHexWide)
    \/ set_goal_font_color(ChooserHexWide)
    \/ add_table
    \/ \E align \in {"left", "center", "right"} : set_alignment(align, {NoSelection})
    \/ save_as_pdf

SpecHex == Init /\ [][NextHex]_vars

\* The about-text editor and export.
NextText ==
    \/ type_char({"a", "\n"}, MaxText)
    \/ make_bold
    \/ make_italic
    \/ make_underline
    \/ make_bullet
    \/ make_heading
    \/ set_alignment("center", Selections)
    \/ save_as_pdf

SpecText == Init /\ [][NextText]_vars

\* The objective entries with texts around the length cap, and export.
NextEntry ==
    \/ add_table
    \/ write_entry(WriteTexts)
    \/ save_as_pdf

SpecEntry == Init /\ [][NextEntry]_vars

\* hex_to_rgb called on its own with each input.
InitColor ==
    /\ AppInit
    /\ color_arg \in ColorInputs
    /\ color_ret = NotCalled
    /\ fit_arg = NoFitArg
    /\ fit_ret = 0

SpecColor == InitColor /\ [][call_hex_to_rgb]_vars

\* adjust_font_size called on its own with each input.
InitFit ==
    /\ AppInit
    /\ color_arg = None
    /\ color_ret = NotCalled
    /\ fit_arg \in FitArgs
    /\ fit_ret = 0

SpecFit == InitFit /\ [][call_adjust_font_size]_vars

----------------------------------------------------------------------------
(* Properties *)

resolves(color) == ~hex_to_rgb(color).raised

\* C1: after a successful export the entry collection is exactly one entry with
\* empty problem and goal texts, and the four colors hold their defaults (about
\* background black, about font white, goal-row background white, goal font black).
C1_ResetAfterExport ==
    outcome = "saved" =>
        /\ tables = << [problem |-> <<>>, goal |-> <<>>] >>
        /\ about_bg_color = <<"b","l","a","c","k">>
        /\ about_font_color = <<"w","h","i","t","e">>
        /\ goal_row_color = <<"#","f","f","f","f","f","f">>
        /\ hex_to_rgb(goal_row_color).value = <<255, 255, 255>>
        /\ goal_font_color = <<"b","l","a","c","k">>

\* An export was saved that had two entries or more, a filled-in problem text and a
\* chosen about background.
C1_Witness ==
    /\ outcome = "saved"
    /\ Len(pdf.rows) >= 4
    /\ \E k \in 1..Len(pdf.rows) : pdf.rows[k].value = <<"S","l","o","w">>
    /\ pdf.fill = <<255, 0, 0>>

\* C2: after a successful export the text alignment is back at left.
C2_AlignmentReset == outcome = "saved" => text_alignment = "L"

\* C3: when the save dialog is cancelled no file is written and the about text, the
\* alignment, the four colors and the entry collection stay exactly as they were.
C3_CancelKeepsState ==
    [][outcome' = "cancelled" => UNCHANGED <<app_vars, files_written>>]_vars

\* A cancelled export in a state that differs from the initial one in the about
\* text, the alignment, a color and the entries.
C3_Witness ==
    /\ outcome = "cancelled"
    /\ about_text # <<>>
    /\ text_alignment = "R"
    /\ goal_font_color # DefaultGoalFont
    /\ Len(tables) >= 2
    /\ tables[2].goal # <<>>

\* C4: an export started while one of the four stored colors does not resolve ends
\* with the color error, writes no file and resets nothing.
C4_InvalidColorAborts ==
    [][ ( /\ outcome' \in {"saved", "cancelled", "ValueError"}
          /\ \E c \in {about_bg_color, about_font_color, goal_row_color, goal_font_color} :
                 ~resolves(c) )
        => (outcome' = "ValueError" /\ UNCHANGED <<app_vars, files_written>>) ]_vars

\* An export failed where only the goal font color does not resolve, with two entries.
C4_Witness ==
    /\ outcome = "ValueError"
    /\ resolves(about_bg_color) /\ resolves(about_font_color) /\ resolves(goal_row_color)
    /\ ~resolves(goal_font_color)
    /\ about_bg_color # DefaultAboutBg
    /\ Len(tables) >= 2

\* C5: the five style actions leave the text that export places in the about block
\* as it was.
C5_StyleKeepsExportText ==
    [][ (make_bold \/ make_italic \/ make_underline \/ make_bullet \/ make_heading)
        => about_export_text(about_text') = about_export_text(about_text) ]_vars

\* C6: adjust_font_size returns the largest size from 6 up to the starting size at
\* which the text is not wider than the maximum width, and 6 when there is none.
C6_FontFit ==
    fit_ret # 0 =>
        LET sizes == {s \in 6..fit_arg.start :
                         text_units(fit_arg.text) * s * 254 <= fit_arg.max_width * 720000}
        IN  /\ fit_ret \in 6..fit_arg.start
            /\ IF sizes = {} THEN fit_ret = 6
               ELSE fit_ret \in sizes /\ \A s \in sizes : s <= fit_ret

\* A 105-character text shrunk to a size strictly between the floor and the start.
C6_Witness ==
    /\ fit_ret > 6 /\ fit_ret < fit_arg.start
    /\ Len(fit_arg.text) = 105
    /\ fit_arg.max_width = 150

\* C7: hex_to_rgb raises for every specifier whose resolved, unmarked string is not
\* 3 or 6 characters long or has a character that is no hexadecimal digit.
C7_RejectsMalformed ==
    LET c1 == strip_marker(resolve_name(color_arg))
    IN  ( /\ color_ret # NotCalled
          /\ color_arg # None
          /\ \/ Len(c1) \notin {3, 6}
             \/ \E i \in 1..Len(c1) : c1[i] \notin HexChars )
        => color_ret.raised

\* C8: a valid 3-digit specifier abc, with or without "#", resolves to the triple of
\* the 6-digit specifier aabbcc.
C8_ShortEqualsLong ==
    LET d == IF Len(color_arg) > 0 /\ color_arg[1] = "#" THEN Tail(color_arg) ELSE color_arg
    IN  ( /\ color_ret # NotCalled
          /\ color_arg # None
          /\ Len(d) = 3
          /\ \A i \in 1..3 : d[i] \in HexChars )
        => LET six == <<d[1], d[1], d[2], d[2], d[3], d[3]>>
           IN  /\ ~color_ret.raised
               /\ color_ret = hex_to_rgb(six)
               /\ color_ret = hex_to_rgb(<<"#">> \o six)

\* "#abc" was resolved to (170, 187, 204).
C8_Witness ==
    /\ color_arg = <<"#","a","b","c">>
    /\ color_ret = [raised |-> FALSE, value |-> <<170, 187, 204>>]

\* C9: export emits for every entry, in entry order, a Problem row then a Goal row,
\* each showing the entry's text, or "N/A" when that text is empty.
C9_RowsFollowEntries ==
    [][ pdf'.built =>
          /\ Len(pdf'.rows) = 2 * Len(tables)
          /\ \A i \in 1..Len(tables) :
                /\ pdf'.rows[2 * i - 1].label = "Problem:"
                /\ pdf'.rows[2 * i - 1].value =
                       (IF tables[i].problem = <<>> THEN <<"N","/","A">> ELSE tables[i].problem)
                /\ pdf'.rows[2 * i].label = "Goal:"
                /\ pdf'.rows[2 * i].value =
                       (IF tables[i].goal = <<>> THEN <<"N","/","A">> ELSE tables[i].goal) ]_vars

\* A document of two entries, the first without a problem text, the second with one.
C9_Witness ==
    /\ pdf.built
    /\ Len(pdf.rows) = 4
    /\ pdf.rows[1].value = <<"N","/","A">>
    /\ pdf.rows[3].value = <<"S","l","o","w">>
    /\ pdf.rows[4].value = <<"N","/","A">>

first_chars(text, n) == IF Len(text) > n THEN SubSeq(text, 1, n) ELSE text

\* C10: every problem and goal text is at most 105 characters long; a write leaves
\* the first 105 characters of the written text; export reads at most 105 characters.
C10_EntryLengthCapped ==
    /\ [](\A i \in 1..Len(tables) :
              Len(tables[i].problem) <= 105 /\ Len(tables[i].goal) <= 105)
    /\ [](\A k \in 1..Len(pdf.rows) : Len(pdf.rows[k].value) <= 105)
    /\ [][ \A i \in 1..Len(tables') : \A f \in {"problem", "goal"} :
              (i > Len(tables) \/ tables'[i][f] # tables[i][f])
              => \E w \in WriteTexts : tables'[i][f] = first_chars(w, 105) ]_vars

\* An export read a problem text that was written longer than 105 characters and
\* holds 105.
C10_Witness ==
    /\ pdf.built
    /\ Len(pdf.rows) = 4
    /\ Len(tables) = 2
    /\ Len(tables[2].problem) = 105
    /\ tables[2].problem[1] = "o"
    /\ pdf.rows[3].value = tables[2].problem

\* C11: with a chooser that returns nothing or "#" and six hexadecimal digits, each
\* of the four stored colors resolves in hex_to_rgb in every reachable state, and no
\* export ends with the color error.
C11_ColorsAlwaysResolve ==
    /\ \A c \in {about_bg_color, about_font_color, goal_row_color, goal_font_color} :
           ~hex_to_rgb(c).raised
    /\ outcome # "ValueError"

\* After one saved export all four colors were chosen anew and a further export,
\* which the save dialog cancelled, assembled its document with them.
C11_Witness ==
    /\ files_written = 1
    /\ outcome = "cancelled"
    /\ pdf.fill = <<18, 171, 239>>
    /\ about_font_color = <<"#","0","9","a","f","A","F">>
    /\ goal_row_color = <<"#","f","f","0","0","0","0">>
    /\ goal_font_color = <<"#","1","2","A","b","E","f">>
    /\ Len(tables) >= 2

====
